---- MODULE Spec2Model ----
(***************************************************************************)
(* Model of server/server.js: the FoodListing and User collections, the    *)
(* uploads directory, the clock read by `new Date()`, and the request      *)
(* handlers of foodRouter, authRouter and adminRouter, each cut at its     *)
(* `await` points so that handlers of different requests interleave the    *)
(* way they do on the Node event loop.                                     *)
(***************************************************************************)
EXTENDS Integers, Sequences, FiniteSets, Bags, TLC

\* ------------------------------------------------------------------ bounds
\* Spec: handlers of different requests interleave on one listing.
\* Number of listings ever created (ObjectIds 1..MaxListings, never reused).
MaxListings == 1
\* Number of handlers that can be suspended at an `await` at the same time.
MaxReq == 2
\* Expiry times of request bodies are drawn from 1..MaxExpiry.
MaxExpiry == 1
\* SpecSeq: requests are handled one after another on several listings.
SeqListings == 2
SeqReq == 1
SeqExpiry == 2
\* The clock runs over 0..MaxTime.
MaxTime == 2
\* Largest maxClaims a request body asks for.
MaxCap == 2
\* SpecFiles: requests that carry an uploaded image, on FileListings listings
\* with at most FileReq handlers suspended at a time.
FileListings == 1
FileReq == 1
\* SpecAuth: registration, seeding and the routes behind `protect` and
\* `admin`, with at most AuthUsers accounts and AuthListings listings.
AuthUsers == 3
AuthListings == 1
AuthReq == 2

\* ------------------------------------------------------------------ users
\* The accounts of Spec, SpecSeq and SpecFiles: two donors, two receivers and
\* the seeded admin, all of them registered before the first request.
Donors == {"d1", "d2"}
Receivers == {"r1", "r2"}
Admins == {"admin"}
Users == Donors \cup Receivers \cup Admins

\* ------------------------------------------------------------------ state
VARIABLES
    store,      \* the FoodListing collection: a set of documents, one per _id
    nextId,     \* the next ObjectId the driver generates
    now,        \* the wall clock read by `new Date()`
    req,        \* the bag of handlers suspended at their write to the collection
    res,        \* the response sent by the last step, NoRes if it sent none
    files,      \* the names of the files in UPLOADS_DIR
    users,      \* the User collection: a set of documents, one per _id
    nextUser,   \* the number of User documents constructed so far
    unlinkErr   \* whether fs.unlink calls its callback with an error

vars == <<store, nextId, now, req, res, files, users, nextUser, unlinkErr>>

\* What the handlers of foodRouter never write.
auth == <<users, nextUser>>

\* UserSchema: one document of the collection (the password is left out).
NewUser(i, n, e, r) == [_id |-> i, name |-> n, email |-> e, role |-> r]

\* UserSchema.role of the account with _id u
role(u) == (CHOOSE x \in users : x._id = u).role

\* UserSchema.name (the value denormalised into donorName and claims[].name)
name(u) == (CHOOSE x \in users : x._id = u).name

\* const adminEmail = "admin@gmail.com"
adminEmail == "admin@gmail.com"

\* The User collection the accounts above make.
Registered ==
    {NewUser("d1", "Dana", "dana@x.org", "Donor"),
     NewUser("d2", "Dev", "dev@x.org", "Donor"),
     NewUser("r1", "Rhea", "rhea@x.org", "Receiver"),
     NewUser("r2", "Ravi", "ravi@x.org", "Receiver"),
     NewUser("admin", "Admin Sreekruthi", adminEmail, "Admin")}

\* The free text of a request body.
Descriptions == {"bread"}

\* No response.
NoRes == [kind |-> "none", user |-> "none", id |-> 0, status |-> 0,
          message |-> "", body |-> <<>>, file |-> {}]

\* res.status(c).json(...): m is the message, b the documents of the payload.
\* file records req.file of the request answered: {} when it carried none.
Respond(k, u, i, c, m, b) ==
    [kind |-> k, user |-> u, id |-> i, status |-> c, message |-> m, body |-> b,
     file |-> {}]

\* A handler of kind k for user u and listing i, suspended at the `await` of
\* its write, holding the document doc it loaded, with paths mod modified,
\* and req.file in file ({} when the request carried none).
Handler(k, u, i, doc, mod) ==
    [kind |-> k, user |-> u, id |-> i, doc |-> doc, mod |-> mod, file |-> {}]

\* FoodListingSchema.imageUrl default.  A URL is a sequence whose first element
\* is its leading part.
Placeholder == <<"https://placehold.co/600x400/a7a7a7/FFF?text=No+Image">>

\* multer filename: `${userId}-${Date.now()}${ext}` (one extension).
FileName(u, t) == <<u, t>>

\* `/uploads/${req.file.filename}`
UploadUrl(f) == <<"/uploads/", f>>

\* url.startsWith('/uploads/')
StartsWithUploads(url) == url[1] = "/uploads/"

\* Mutant of deleteFile: the file goes even when unlink reports an error.
deleteFile_Forced(F, url) == IF StartsWithUploads(url) THEN F \ {url[2]} ELSE F

\* deleteFile(filePath): the directory F after fs.unlink of the file the path
\* names.  An unlink that fails (the file is not there, or the file system
\* refuses) leaves F as it is and is only logged.
deleteFile(F, url) ==
    IF StartsWithUploads(url) /\ ~unlinkErr THEN F \ {url[2]} ELSE F

\* upload.single('image'): req.file of a request of u that carries an image
\* (up) or none, and UPLOADS_DIR after multer wrote the file.
ReqFile(u, up) == IF up THEN {FileName(u, now)} ELSE {}
Uploaded(F, file) == F \cup file

\* if (req.file) deleteFile(`/uploads/${req.file.filename}`)
DeleteUpload(F, file) ==
    IF file = {} THEN F ELSE deleteFile(F, UploadUrl(CHOOSE f \in file : TRUE))

\* FoodListingSchema: one document of the collection.  description stands for
\* the free-text fields (category, description, quantity, location, mfgTime),
\* which every handler treats by the same rule.  img is the imageUrl given to
\* the constructor ({} when undefined), t the time of the insert (timestamps).
NewListing(i, u, d, e, m, img, t) ==
    [_id |-> i, donor |-> u, donorName |-> name(u), description |-> d,
     imageUrl |-> IF img = {} THEN Placeholder ELSE CHOOSE x \in img : TRUE,
     expiryTime |-> e, maxClaims |-> m, claims |-> <<>>, createdAt |-> t]

\* FoodListing.findById: the set holding the document with that _id, or {} (null).
FindById(i) == {l \in store : l._id = i}

\* Mutant of transformImageUrl: the stored reference is sent as it is.
transformImageUrl_Identity(l) == l

\* transformImageUrl: the plain object sent to the caller, a local image
\* reference prefixed with `http://localhost:${PORT}`.
transformImageUrl(l) ==
    IF StartsWithUploads(l.imageUrl)
    THEN [l EXCEPT !.imageUrl = <<"http://localhost:3001">> \o @]
    ELSE l

Init ==
    /\ store = {}
    /\ nextId = 1
    /\ now = 0
    /\ req = EmptyBag
    /\ res = NoRes
    /\ files = {}
    /\ users = Registered
    /\ nextUser = 0
    /\ unlinkErr = FALSE

\* ------------------------------------------------------------------ clock
Tick ==
    /\ now < MaxTime
    /\ now' = now + 1
    /\ res' = NoRes
    /\ UNCHANGED <<store, nextId, req, files, auth, unlinkErr>>

\* The file system starts or stops refusing fs.unlink (permissions, a busy
\* file): the `err` of deleteFile's callback, outside the server's control.
Fault ==
    /\ unlinkErr' = ~unlinkErr
    /\ res' = NoRes
    /\ UNCHANGED <<store, nextId, now, req, files, auth>>

\* ------------------------------------------------------------------ save
\* FoodListingSchema validators run by save(): maxClaims { min: 1 }.
Validates(l) == l.maxClaims >= 1

\* Mutant of ApplyDelta: save() writes the whole claims array it holds.
ApplyDelta_SetArray(stored, local, mod) ==
    [f \in DOMAIN stored |-> IF f \notin mod THEN stored[f] ELSE local[f]]

\* Mutant of ApplyDelta: save() replaces the stored document by the one held.
ApplyDelta_WholeDocument(stored, local, mod) == local

\* Mutant of ApplyDelta: the push is an atomic conditional update, made only
\* while the stored listing has a free slot.
ApplyDelta_Conditional(stored, local, mod) ==
    [f \in DOMAIN stored |->
        IF f \notin mod THEN stored[f]
        ELSE IF f = "claims"
             THEN IF Len(stored.claims) < stored.maxClaims
                  THEN Append(stored.claims, local.claims[Len(local.claims)])
                  ELSE stored.claims
        ELSE local[f]]

\* What save() of a loaded document sends: $set of the modified paths, and for
\* an array that was only pushed to, $push of the new element.
ApplyDelta(stored, local, mod) ==
    [f \in DOMAIN stored |->
        IF f \notin mod THEN stored[f]
        ELSE IF f = "claims" THEN Append(stored.claims, local.claims[Len(local.claims)])
        ELSE local[f]]

\* Mutant of UpdateOne: the update has no filter on _id.
UpdateOne_NoFilter(local, mod) == {ApplyDelta(l, local, mod) : l \in store}

\* The collection after updateOne({_id}, delta).
UpdateOne(local, mod) ==
    {IF l._id = local._id THEN ApplyDelta(l, local, mod) ELSE l : l \in store}

\* Mutant of SaveSucceeds: save() does not look at the number of documents
\* the update matched.
SaveSucceeds_Unmatched(local) == local.maxClaims >= 1

\* save() resolves when the document validates and the update matched a
\* stored document; otherwise it throws (ValidationError, DocumentNotFoundError).
SaveSucceeds(local) == Validates(local) /\ FindById(local._id) # {}

\* ------------------------------------------------------------------ claim
\* new Date(listing.expiryTime) < new Date()
Expired(l, t) == l.expiryTime < t

\* Mutant of IsFull: the capacity check is off by one.
IsFull_Strict(l) == Len(l.claims) > l.maxClaims

\* listing.claims.length >= listing.maxClaims
IsFull(l) == Len(l.claims) >= l.maxClaims

\* listing.claims.some(claim => claim.userId.toString() === req.user._id.toString())
AlreadyClaimed(l, u) == \E k \in 1..Len(l.claims) : l.claims[k].userId = u

\* Mutant of ClaimDecision: the duplicate check comes before the capacity check.
ClaimDecision_DuplicateFirst(l, u, t) ==
    IF l.expiryTime < t THEN "This listing has expired."
    ELSE IF \E k \in 1..Len(l.claims) : l.claims[k].userId = u
         THEN "You have already claimed this listing."
    ELSE IF Len(l.claims) >= l.maxClaims THEN "This listing is fully claimed."
    ELSE "allow"

\* The checks of PUT /:id/claim in the order the handler makes them.
ClaimDecision(l, u, t) ==
    IF Expired(l, t) THEN "This listing has expired."
    ELSE IF IsFull(l) THEN "This listing is fully claimed."
    ELSE IF AlreadyClaimed(l, u) THEN "You have already claimed this listing."
    ELSE "allow"

\* listing.claims.push({ userId: req.user._id, name: req.user.name })
PushClaim(l, u) == [l EXCEPT !.claims = Append(@, [userId |-> u, name |-> name(u)])]

\* Mutant of MayClaim: only donors are turned away.
MayClaim_NotDonor(u) == role(u) # "Donor"

\* req.user.role !== 'Receiver'
MayClaim(u) == role(u) = "Receiver"

\* PUT /:id/claim up to `await listing.save()`: the role check, findById and
\* the checks on the document it returned.
ClaimBegin(u, i) ==
    /\ IF ~MayClaim(u)
       THEN /\ res' = Respond("claim", u, i, 403, "Only receivers can claim food.", <<>>)
            /\ req' = req
       ELSE IF FindById(i) = {}
       THEN /\ res' = Respond("claim", u, i, 404, "Listing not found", <<>>)
            /\ req' = req
       ELSE LET l == CHOOSE l \in FindById(i) : TRUE
                d == ClaimDecision(l, u, now) IN
            IF d # "allow"
            THEN /\ res' = Respond("claim", u, i, 400, d, <<>>)
                 /\ req' = req
            ELSE /\ res' = NoRes
                 /\ req' = req (+) SetToBag({Handler("claim", u, i, PushClaim(l, u), {"claims"})})
    /\ UNCHANGED <<store, nextId, now, files, auth, unlinkErr>>

\* PUT /:id/claim: the write of listing.save() and the response.
ClaimSave(r) ==
    /\ r.kind = "claim"
    /\ IF SaveSucceeds(r.doc)
       THEN /\ store' = UpdateOne(r.doc, r.mod)
            /\ res' = Respond("claim", r.user, r.id, 200, "Listing claimed successfully!",
                              <<transformImageUrl(r.doc)>>)
       ELSE /\ store' = store
            /\ res' = Respond("claim", r.user, r.id, 500, "Server error", <<>>)
    /\ req' = req (-) SetToBag({r})
    /\ UNCHANGED <<nextId, now, files, auth, unlinkErr>>

\* ------------------------------------------------------------------ create
\* parseInt(x, 10): the set holding the number, or {} for NaN.
ParseInt(x) == {n \in 0..(MaxCap + 1) : ToString(n) = x}

\* The maxClaims values a request body carries: numbers, and not a number.
RawMaxClaims == {ToString(n) : n \in 0..MaxCap} \cup {"abc"}

\* An optional field of a request body: {} when the field is undefined.
Optional(S) == {{}} \cup {{x} : x \in S}

\* Mutant of MayCreate: only receivers are turned away.
MayCreate_NotReceiver(u) == role(u) # "Receiver"

\* req.user.role !== 'Donor'
MayCreate(u) == role(u) = "Donor"

\* Mutant of Create's cleanup: the file of a rejected request is kept.
CreateCleanup_Keep(F, file) == F

\* What POST / does with req.file on each of its failure paths.
CreateCleanup(F, file) == DeleteUpload(F, file)

\* POST / with a body whose description, expiryTime and maxClaims are drawn
\* from Optional(Ds), Optional(Es) and Optional(RawMaxClaims), carrying an
\* image or not as drawn from Fs.  A maxClaims that is NaN fails the Number
\* cast and one below 1 fails the min validator; save() then throws before
\* anything is inserted.
Create(u, Ds, Es, Fs) ==
    /\ \E up \in Fs :
       LET file == ReqFile(u, up)
           F == Uploaded(files, file) IN
       IF ~MayCreate(u)
       THEN /\ res' = [Respond("create", u, 0, 403, "Only donors can create listings.",
                               <<>>) EXCEPT !.file = file]
            /\ files' = CreateCleanup(F, file)
            /\ UNCHANGED <<store, nextId>>
       ELSE \E D \in Optional(Ds), E \in Optional(Es), M \in Optional(RawMaxClaims) :
            IF D = {} \/ E = {} \/ M = {}
            THEN /\ res' = [Respond("create", u, 0, 400,
                                    "Please fill out all required fields.", <<>>)
                               EXCEPT !.file = file]
                 /\ files' = CreateCleanup(F, file)
                 /\ UNCHANGED <<store, nextId>>
            ELSE LET n == ParseInt(CHOOSE x \in M : TRUE) IN
                 /\ nextId' = nextId + 1
                 /\ IF n # {} /\ (CHOOSE x \in n : TRUE) >= 1
                    THEN LET l == NewListing(nextId, u, CHOOSE x \in D : TRUE,
                                             CHOOSE x \in E : TRUE, CHOOSE x \in n : TRUE,
                                             {UploadUrl(f) : f \in file}, now) IN
                         /\ store' = store \cup {l}
                         /\ files' = F
                         /\ res' = [Respond("create", u, nextId, 201, "",
                                            <<transformImageUrl(l)>>)
                                       EXCEPT !.file = file]
                    ELSE /\ store' = store
                         /\ files' = CreateCleanup(F, file)
                         /\ res' = [Respond("create", u, nextId, 500, "Server error", <<>>)
                                       EXCEPT !.file = file]
    /\ UNCHANGED <<now, req, auth, unlinkErr>>

\* ------------------------------------------------------------------ edit
\* Mutant of IsOwner: an admin may edit any listing.
IsOwner_OrAdmin(l, u) == l.donor = u \/ role(u) = "Admin"

\* Mutant of IsOwner: the owner of an expired listing is turned away.
IsOwner_Unexpired(l, u) == l.donor = u /\ ~(l.expiryTime < now)

\* listing.donor.toString() === req.user._id.toString()
IsOwner(l, u) == l.donor = u

\* The assignments of PUT /:id to the loaded document.
Assign(l, D, E, M) ==
    LET n == IF M = {} THEN {} ELSE ParseInt(CHOOSE x \in M : TRUE) IN
    [l EXCEPT !.description = IF D # {} THEN CHOOSE x \in D : TRUE ELSE @,
              !.expiryTime = IF E # {} THEN CHOOSE x \in E : TRUE ELSE @,
              !.maxClaims = IF n # {} THEN CHOOSE x \in n : TRUE ELSE @]

\* The paths of the document that an assignment changed (isModified).
Modified(old, new) == {f \in DOMAIN old : old[f] # new[f]}

\* Mutant of ReplaceImage: the old file is kept.
ReplaceImage_KeepOld(F, l, file) == F

\* if (req.file) { if (oldImageUrl && oldImageUrl.startsWith('/uploads/'))
\* deleteFile(oldImageUrl); ... }: UPLOADS_DIR after the old image of l is
\* deleted for the new one.
ReplaceImage(F, l, file) == IF file = {} THEN F ELSE deleteFile(F, l.imageUrl)

\* if (req.file) { ...; listing.imageUrl = newImageUrl }
AssignImage(l, file) ==
    IF file = {} THEN l ELSE [l EXCEPT !.imageUrl = UploadUrl(CHOOSE f \in file : TRUE)]

\* PUT /:id up to `await listing.save()`: findById, the owner check, the
\* replacement of the image and the assignments of the body's fields, drawn
\* as for Create.
EditBegin(u, i, Ds, Es, Fs) ==
    /\ \E up \in Fs :
       LET file == ReqFile(u, up)
           F == Uploaded(files, file) IN
       IF FindById(i) = {}
       THEN /\ res' = [Respond("edit", u, i, 404, "Listing not found", <<>>)
                          EXCEPT !.file = file]
            /\ files' = F
            /\ req' = req
       ELSE LET old == CHOOSE l \in FindById(i) : TRUE IN
            IF ~IsOwner(old, u)
            THEN /\ res' = [Respond("edit", u, i, 401,
                                    "User not authorized to update this listing", <<>>)
                               EXCEPT !.file = file]
                 /\ files' = DeleteUpload(F, file)
                 /\ req' = req
            ELSE \E D \in Optional(Ds), E \in Optional(Es), M \in Optional(RawMaxClaims) :
                 LET l == Assign(AssignImage(old, file), D, E, M) IN
                 /\ res' = NoRes
                 /\ files' = ReplaceImage(F, old, file)
                 /\ req' = req (+) SetToBag({[Handler("edit", u, i, l, Modified(old, l))
                                                EXCEPT !.file = file]})
    /\ UNCHANGED <<store, nextId, now, auth, unlinkErr>>

\* PUT /:id: the write of listing.save() and the response.
EditSave(r) ==
    /\ r.kind = "edit"
    /\ IF SaveSucceeds(r.doc)
       THEN /\ store' = UpdateOne(r.doc, r.mod)
            /\ files' = files
            /\ res' = [Respond("edit", r.user, r.id, 200, "", <<transformImageUrl(r.doc)>>)
                          EXCEPT !.file = r.file]
       ELSE /\ store' = store
            /\ files' = DeleteUpload(files, r.file)
            /\ res' = [Respond("edit", r.user, r.id, 500, "Server error", <<>>)
                          EXCEPT !.file = r.file]
    /\ req' = req (-) SetToBag({r})
    /\ UNCHANGED <<nextId, now, auth, unlinkErr>>

\* ------------------------------------------------------------------ delete
\* Mutant of MayDelete: the role is compared with the wrong constant.
MayDelete_AnyDonor(l, u) == l.donor = u \/ role(u) = "Donor"

\* listing.donor.toString() === req.user._id.toString() || req.user.role === 'Admin'
MayDelete(l, u) == l.donor = u \/ role(u) = "Admin"

\* Mutant of DeleteImage: the image file is kept.
DeleteImage_Keep(F, l) == F

\* if (listing.imageUrl && listing.imageUrl.startsWith('/uploads/'))
\* deleteFile(listing.imageUrl)
DeleteImage(F, l) == deleteFile(F, l.imageUrl)

\* DELETE /:id up to `await FoodListing.deleteOne`: findById, the check of
\* the requester and the removal of the image file.
DeleteBegin(u, i) ==
    /\ IF FindById(i) = {}
       THEN /\ res' = Respond("delete", u, i, 404, "Listing not found", <<>>)
            /\ UNCHANGED <<req, files>>
       ELSE LET l == CHOOSE l \in FindById(i) : TRUE IN
            IF ~MayDelete(l, u)
            THEN /\ res' = Respond("delete", u, i, 401,
                                   "User not authorized to delete this listing", <<>>)
                 /\ UNCHANGED <<req, files>>
            ELSE /\ res' = NoRes
                 /\ files' = DeleteImage(files, l)
                 /\ req' = req (+) SetToBag({Handler("delete", u, i, l, {})})
    /\ UNCHANGED <<store, nextId, now, auth, unlinkErr>>

\* DELETE /:id: deleteOne({ _id }) and the response.
DeleteApply(r) ==
    /\ r.kind = "delete"
    /\ store' = store \ FindById(r.id)
    /\ res' = Respond("delete", r.user, r.id, 200, "Listing removed successfully", <<>>)
    /\ req' = req (-) SetToBag({r})
    /\ UNCHANGED <<nextId, now, files, auth, unlinkErr>>

\* ------------------------------------------------------------------ queries
\* Mutant of Available: $lte in place of $lt.
Available_IncludesFull(l, t) == l.expiryTime > t /\ Len(l.claims) <= l.maxClaims

\* { expiryTime: { $gt: new Date() }, $expr: { $lt: [{ $size: "$claims" }, "$maxClaims"] } }
Available(l, t) == l.expiryTime > t /\ Len(l.claims) < l.maxClaims

\* .sort({ expiryTime: 1 }): the orders of S the sort can return (documents
\* with equal keys come in either order).
SortByExpiry(S) ==
    {q \in [1..Cardinality(S) -> S] :
        /\ \A a, b \in DOMAIN q : a # b => q[a] # q[b]
        /\ \A a, b \in DOMAIN q : a < b => q[a].expiryTime <= q[b].expiryTime}

\* listings.map(transformImageUrl)
MapTransform(q) == [k \in DOMAIN q |-> transformImageUrl(q[k])]

\* GET / : the available listings.
GetAvailable ==
    /\ \E q \in SortByExpiry({l \in store : Available(l, now)}) :
          res' = Respond("available", "none", 0, 200, "", MapTransform(q))
    /\ UNCHANGED <<store, nextId, now, req, files, auth, unlinkErr>>

\* Mutant of SortByCreatedDesc: the sort is ascending.
SortByCreatedDesc_Ascending(S) ==
    {q \in [1..Cardinality(S) -> S] :
        /\ \A a, b \in DOMAIN q : a # b => q[a] # q[b]
        /\ \A a, b \in DOMAIN q : a < b => q[a].createdAt <= q[b].createdAt}

\* .sort({ createdAt: -1 }): the orders of S the sort can return.
SortByCreatedDesc(S) ==
    {q \in [1..Cardinality(S) -> S] :
        /\ \A a, b \in DOMAIN q : a # b => q[a] # q[b]
        /\ \A a, b \in DOMAIN q : a < b => q[a].createdAt >= q[b].createdAt}

\* Mutant of OwnedBy: the donor filter is dropped.
OwnedBy_Anyone(l, u) == TRUE

\* { donor: req.user._id }
OwnedBy(l, u) == l.donor = u

\* GET /mylistings : the listings of the donor who asks.
GetMyListings(u) ==
    /\ IF role(u) # "Donor"
       THEN res' = Respond("mylistings", u, 0, 403,
                           "Only donors can view their listings.", <<>>)
       ELSE \E q \in SortByCreatedDesc({l \in store : OwnedBy(l, u)}) :
               res' = Respond("mylistings", u, 0, 200, "", MapTransform(q))
    /\ UNCHANGED <<store, nextId, now, req, files, auth, unlinkErr>>

\* { "claims.userId": req.user._id }
ClaimedBy(l, u) == \E k \in 1..Len(l.claims) : l.claims[k].userId = u

\* GET /myclaims : the listings the receiver who asks has claimed.
GetMyClaims(u) ==
    /\ IF role(u) # "Receiver"
       THEN res' = Respond("myclaims", u, 0, 403,
                           "Only receivers can view their claims.", <<>>)
       ELSE \E q \in SortByCreatedDesc({l \in store : ClaimedBy(l, u)}) :
               res' = Respond("myclaims", u, 0, 200, "", MapTransform(q))
    /\ UNCHANGED <<store, nextId, now, req, files, auth, unlinkErr>>

\* ------------------------------------------------------------------ accounts
\* The ObjectId of the n-th User document constructed.
UserId(n) == "u" \o ToString(n)

\* The addresses of request bodies; "Admin@gmail.com" is the one with capitals.
Emails == {"ann@x.org", "Admin@gmail.com", adminEmail}

\* UserSchema.email { lowercase: true }: the setter applied to a value that is
\* stored or looked up.
ToLowerCase(e) == IF e = "Admin@gmail.com" THEN "admin@gmail.com" ELSE e

\* The roles of request bodies: those of the enum, and one that is not.
Roles == {"Donor", "Receiver", "Admin", "Chef"}

\* UserSchema.role { enum: ['Donor', 'Receiver', 'Admin'] }
ValidRole(r) == r \in {"Donor", "Receiver", "Admin"}

\* User.findOne({ email }): the documents with that address.
FindByEmail(e) == {x \in users : x.email = ToLowerCase(e)}

\* user.save() of a new document resolves when the document validates and the
\* unique index on email admits it; otherwise it throws.
InsertSucceeds(x) == ValidRole(x.role) /\ \A y \in users : y.email # x.email

\* seedAdminUser up to `await adminUser.save()`: findOne and, when no account
\* has the admin address, the construction of the Admin document.
SeedBegin ==
    /\ IF FindByEmail(adminEmail) = {}
       THEN /\ nextUser' = nextUser + 1
            /\ req' = req (+) SetToBag({Handler("seed", UserId(nextUser + 1), 0,
                                     NewUser(UserId(nextUser + 1), "Admin Sreekruthi",
                                             ToLowerCase(adminEmail), "Admin"), {})})
       ELSE UNCHANGED <<nextUser, req>>
    /\ res' = NoRes
    /\ UNCHANGED <<store, nextId, now, files, users, unlinkErr>>

\* seedAdminUser: the insert of adminUser.save(); its failure is only logged.
SeedSave(r) ==
    /\ r.kind = "seed"
    /\ users' = IF InsertSucceeds(r.doc) THEN users \cup {r.doc} ELSE users
    /\ req' = req (-) SetToBag({r})
    /\ res' = NoRes
    /\ UNCHANGED <<store, nextId, now, files, nextUser, unlinkErr>>

\* Mutant of Reserved: only the role is checked.
Reserved_RoleOnly(e, r) == r = "Admin"

\* role === 'Admin' || email === 'admin@gmail.com'
Reserved(e, r) == r = "Admin" \/ e = "admin@gmail.com"

\* The user of a response of authRouter.
UserPayload(x) == [_id |-> x._id, name |-> x.name, email |-> x.email, role |-> x.role]

\* POST /register up to `await user.save()`, with the name, email and role of
\* the body drawn from Optional sets: the checks of the body, findOne and the
\* construction of the document.
RegisterBegin ==
    /\ \E N \in Optional({"Ann"}), E \in Optional(Emails), R \in Optional(Roles) :
       IF N = {} \/ E = {} \/ R = {}
       THEN /\ res' = Respond("register", "none", 0, 400, "Please enter all fields", <<>>)
            /\ UNCHANGED <<nextUser, req>>
       ELSE LET e == CHOOSE x \in E : TRUE
                r == CHOOSE x \in R : TRUE IN
            IF Reserved(e, r)
            THEN /\ res' = Respond("register", "none", 0, 400,
                                   "Cannot register with this email or role.", <<>>)
                 /\ UNCHANGED <<nextUser, req>>
            ELSE IF FindByEmail(e) # {}
            THEN /\ res' = Respond("register", "none", 0, 400, "User already exists", <<>>)
                 /\ UNCHANGED <<nextUser, req>>
            ELSE /\ nextUser' = nextUser + 1
                 /\ req' = req (+) SetToBag({Handler("register", UserId(nextUser + 1), 0,
                                          NewUser(UserId(nextUser + 1), CHOOSE x \in N : TRUE,
                                                  ToLowerCase(e), r), {})})
                 /\ res' = NoRes
    /\ UNCHANGED <<store, nextId, now, files, users, unlinkErr>>

\* POST /register: the insert of user.save() and the response.
RegisterSave(r) ==
    /\ r.kind = "register"
    /\ IF InsertSucceeds(r.doc)
       THEN /\ users' = users \cup {r.doc}
            /\ res' = Respond("register", r.user, 0, 201, "", <<UserPayload(r.doc)>>)
       ELSE /\ users' = users
            /\ res' = Respond("register", r.user, 0, 500, "Server error", <<>>)
    /\ req' = req (-) SetToBag({r})
    /\ UNCHANGED <<store, nextId, now, files, nextUser, unlinkErr>>

\* The Authorization header of a request: none, a bearer token that
\* jwt.verify rejects, or a bearer token it accepts, which carries the id of
\* an account (tokens live 30 days, the collection can lose the account).
NoToken == [kind |-> "none", id |-> ""]
BadToken == [kind |-> "bad", id |-> ""]
Token(i) == [kind |-> "token", id |-> i]
Credentials == {NoToken, BadToken} \cup {Token(UserId(n)) : n \in 1..AuthUsers}

\* protect: the message of its 401 response, or "next" when it calls next().
Protect(c) ==
    IF c.kind = "none" THEN "Not authorized, no token"
    ELSE IF c.kind = "bad" THEN "Not authorized, token failed"
    ELSE IF \A x \in users : x._id # c.id THEN "No user found with this token"
    ELSE "next"

\* The 401 response of protect to a request of kind k.
Unauthorized(k, c) ==
    /\ res' = Respond(k, "none", 0, 401, Protect(c), <<>>)
    /\ UNCHANGED <<store, nextId, now, req, files, auth, unlinkErr>>

\* Mutant of IsAdmin: every account that is not a receiver passes.
IsAdmin_NotReceiver(u) == role(u) # "Receiver"

\* req.user && req.user.role === 'Admin'
IsAdmin(u) == role(u) = "Admin"

\* The 403 response of admin to a request of kind k.
Forbidden(k, u) ==
    /\ res' = Respond(k, u, 0, 403, "Not authorized as an admin", <<>>)
    /\ UNCHANGED <<store, nextId, now, req, files, auth, unlinkErr>>

\* The values of req.query.filter.
Filters == {"", "1week"}

\* getDateFilter: the lower bounds on createdAt ({} for no filter), the clock
\* counting weeks.
getDateFilter(f, t) ==
    IF f = "1week" THEN {t - 1}
    ELSE IF f = "1month" THEN {t - 4}
    ELSE IF f = "3month" THEN {t - 13}
    ELSE IF f = "1year" THEN {t - 52}
    ELSE {}

\* FoodListing.find(dateFilter)
Matches(l, dateFilter) == \A b \in dateFilter : l.createdAt >= b

\* GET /admin/users
AdminUsers(c) ==
    IF Protect(c) # "next" THEN Unauthorized("adminusers", c)
    ELSE IF ~IsAdmin(c.id) THEN Forbidden("adminusers", c.id)
    ELSE /\ \E q \in [1..Cardinality(users) -> users] :
              /\ \A a, b \in DOMAIN q : a # b => q[a] # q[b]
              /\ res' = Respond("adminusers", c.id, 0, 200, "", q)
         /\ UNCHANGED <<store, nextId, now, req, files, auth, unlinkErr>>

\* GET /admin/listings
AdminListings(c) ==
    IF Protect(c) # "next" THEN Unauthorized("adminlistings", c)
    ELSE IF ~IsAdmin(c.id) THEN Forbidden("adminlistings", c.id)
    ELSE /\ \E f \in Filters :
           \E q \in SortByCreatedDesc({l \in store : Matches(l, getDateFilter(f, now))}) :
              res' = Respond("adminlistings", c.id, 0, 200, "", MapTransform(q))
         /\ UNCHANGED <<store, nextId, now, req, files, auth, unlinkErr>>

\* GET /admin/dashboard up to its second `await`: User.countDocuments().
DashboardBegin(c) ==
    IF Protect(c) # "next" THEN Unauthorized("dashboard", c)
    ELSE IF ~IsAdmin(c.id) THEN Forbidden("dashboard", c.id)
    ELSE /\ \E f \in Filters :
              req' = req (+) SetToBag({Handler("dashboard", c.id, 0,
                                       [users |-> Cardinality(users),
                                        dateFilter |-> getDateFilter(f, now)], {})})
         /\ res' = NoRes
         /\ UNCHANGED <<store, nextId, now, files, auth, unlinkErr>>

\* GET /admin/dashboard up to its third `await`:
\* FoodListing.countDocuments(dateFilter).
DashboardCount(r) ==
    /\ r.kind = "dashboard"
    /\ req' = (req (-) SetToBag({r}))
                (+) SetToBag({Handler("dashboardfind", r.user, 0,
                              [users |-> r.doc.users,
                               dateFilter |-> r.doc.dateFilter,
                               total |-> Cardinality({l \in store :
                                                        Matches(l, r.doc.dateFilter)})],
                              {})})
    /\ res' = NoRes
    /\ UNCHANGED <<store, nextId, now, files, auth, unlinkErr>>

\* GET /admin/dashboard: the find of the available listings and the response.
DashboardFind(r) ==
    /\ r.kind = "dashboardfind"
    /\ req' = req (-) SetToBag({r})
    /\ res' = Respond("dashboard", r.user, 0, 200, "",
                      <<[users |-> r.doc.users, total |-> r.doc.total,
                         available |-> Cardinality({l \in store :
                                            /\ Matches(l, r.doc.dateFilter)
                                            /\ Available(l, now)})]>>)
    /\ UNCHANGED <<store, nextId, now, files, auth, unlinkErr>>

\* POST / behind protect.
ProtectedCreate(c, Ds, Es) ==
    IF Protect(c) # "next" THEN Unauthorized("create", c)
    ELSE Create(c.id, Ds, Es, {FALSE})

\* ------------------------------------------------------------------ next
\* The response has left the server.
Sent ==
    /\ res # NoRes
    /\ res' = NoRes
    /\ UNCHANGED <<store, nextId, now, req, files, auth, unlinkErr>>

\* The steps of the server with at most L listings created, at most R
\* handlers suspended at a time, expiry times up to T and requests that carry
\* an image or not as Fs allows, sent by the accounts U.  A handler runs from
\* one `await` to the next, or to its response, without interruption.  The
\* read of findById and the code that runs on its result are one step, taken
\* when the result arrives: until its next `await` the handler works on its
\* own copy of the document and reads the clock once.  Every request comes
\* from a user that `protect` has already authenticated.
Step(L, R, T, Fs, U) ==
    \/ Sent
    \/ res = NoRes /\ Tick
    \/ \E u \in U, i \in 1..L :
          res = NoRes /\ BagCardinality(req) < R /\ ClaimBegin(u, i)
    \/ \E r \in BagToSet(req) : res = NoRes /\ ClaimSave(r)
    \/ \E u \in U : res = NoRes /\ nextId <= L /\ Create(u, Descriptions, 1..T, Fs)
    \/ \E u \in U, i \in 1..L :
          res = NoRes /\ BagCardinality(req) < R /\ EditBegin(u, i, Descriptions, 1..T, Fs)
    \/ \E r \in BagToSet(req) : res = NoRes /\ EditSave(r)
    \/ \E u \in U, i \in 1..L :
          res = NoRes /\ BagCardinality(req) < R /\ DeleteBegin(u, i)
    \/ \E r \in BagToSet(req) : res = NoRes /\ DeleteApply(r)
    \/ res = NoRes /\ GetAvailable
    \/ \E u \in U : res = NoRes /\ GetMyListings(u)
    \/ \E u \in U : res = NoRes /\ GetMyClaims(u)

Next == Step(MaxListings, MaxReq, MaxExpiry, {FALSE}, Users)

Spec == Init /\ [][Next]_vars

NextSeq == Step(SeqListings, SeqReq, SeqExpiry, {FALSE}, Users)

SpecSeq == Init /\ [][NextSeq]_vars

\* The accounts that send requests in SpecFiles: a donor, and a receiver who
\* owns no listing and may not create one.
Uploaders == {"d1", "r1"}

\* The requests of SpecFiles, and the listing query of the admin account.
NextFiles ==
    \/ Step(FileListings, FileReq, MaxExpiry, BOOLEAN, Uploaders)
    \/ \E u \in Admins \cup Uploaders : res = NoRes /\ AdminListings(Token(u))

SpecFiles == Init /\ [][NextFiles]_vars

\* SpecFiles on a file system whose unlink can fail.
NextFault ==
    \/ NextFiles
    \/ res = NoRes /\ Fault

SpecFault == Init /\ [][NextFault]_vars

\* The server from its first start on empty collections.
InitAuth ==
    /\ store = {}
    /\ nextId = 1
    /\ now = 0
    /\ req = EmptyBag
    /\ res = NoRes
    /\ files = {}
    /\ users = {}
    /\ nextUser = 0
    /\ unlinkErr = FALSE

\* Seeding (at every start of the server), registration and the routes behind
\* protect, with at most AuthReq handlers suspended at a time.
NextAuth ==
    \/ Sent
    \/ res = NoRes /\ Tick
    \/ res = NoRes /\ nextUser < AuthUsers /\ BagCardinality(req) < AuthReq /\ SeedBegin
    \/ \E r \in BagToSet(req) : res = NoRes /\ SeedSave(r)
    \/ res = NoRes /\ nextUser < AuthUsers /\ BagCardinality(req) < AuthReq /\ RegisterBegin
    \/ \E r \in BagToSet(req) : res = NoRes /\ RegisterSave(r)
    \/ \E c \in Credentials : res = NoRes /\ AdminUsers(c)
    \/ \E c \in Credentials : res = NoRes /\ AdminListings(c)
    \/ \E c \in Credentials :
          res = NoRes /\ BagCardinality(req) < AuthReq /\ DashboardBegin(c)
    \/ \E r \in BagToSet(req) : res = NoRes /\ DashboardCount(r)
    \/ \E r \in BagToSet(req) : res = NoRes /\ DashboardFind(r)
    \/ \E c \in Credentials :
          res = NoRes /\ nextId <= AuthListings
             /\ ProtectedCreate(c, Descriptions, 1..MaxExpiry)

SpecAuth == InitAuth /\ [][NextAuth]_vars

\* ------------------------------------------------------------------ steps
\* What a step shows of the request it served.
\* The request of kind k by u on listing i was answered in this step, by the
\* code that runs on the result of findById (no write was awaited).
Answered(k, u, i) ==
    /\ res = NoRes
    /\ res'.kind = k /\ res'.user = u /\ res'.id = i
    /\ req' = req

\* The request of kind k by u on listing i passed its checks in this step and
\* now awaits its write.
Suspended(k, u, i) ==
    \E r \in BagToSet(req') :
        /\ r.kind = k /\ r.user = u /\ r.id = i
        /\ CopiesIn(r, req') = CopiesIn(r, req) + 1

\* The handler r made its write in this step and sent its response.
Wrote(r) ==
    /\ req' = req (-) SetToBag({r})
    /\ res'.kind = r.kind /\ res'.user = r.user /\ res'.id = r.id

\* The receivers among the claims of l.
Claimants(l) == {l.claims[k].userId : k \in 1..Len(l.claims)}

\* ------------------------------------------------------------------ claims
\* C1: in every reachable state every stored listing has at most maxClaims
\* entries in claims, whatever the interleaving of the requests.
C1_ClaimsWithinMax ==
    \A l \in store : Len(l.claims) <= l.maxClaims

\* C2: in every reachable state no receiver identity appears in more than one
\* entry of the claims of a stored listing.
C2_NoReceiverTwice ==
    \A l \in store : \A a, b \in 1..Len(l.claims) :
        a # b => l.claims[a].userId # l.claims[b].userId

\* C3: a claim request by a Receiver on a stored listing is decided by the
\* checks expired, full, duplicate in that order, where expired is the check
\* the handler makes (expiryTime earlier than the current time): an expired
\* and full listing answers "expired", a full listing that is not expired
\* answers "full" whether or not the requester is among its claimants, and
\* "duplicate" is answered only for a listing neither expired nor full that
\* has the requester among its claimants.
C3_CheckOrder ==
    [][\A u \in Receivers : \A l \in store :
          (Answered("claim", u, l._id) \/ Suspended("claim", u, l._id)) =>
             /\ (l.expiryTime < now /\ Len(l.claims) >= l.maxClaims)
                   => res'.message = "This listing has expired."
             /\ (~(l.expiryTime < now) /\ Len(l.claims) >= l.maxClaims)
                   => res'.message = "This listing is fully claimed."
             /\ res'.message = "You have already claimed this listing."
                   => /\ ~(l.expiryTime < now)
                      /\ Len(l.claims) < l.maxClaims
                      /\ u \in Claimants(l)]_vars

\* C3 witness: a full, unexpired listing answered "full" to one of its claimants.
C3_Witness ==
    /\ res.kind = "claim" /\ res.message = "This listing is fully claimed."
    /\ \E l \in store : /\ l._id = res.id
                        /\ ~(l.expiryTime < now)
                        /\ Len(l.claims) >= l.maxClaims
                        /\ res.user \in Claimants(l)

\* C4: a claim request by a Receiver on a stored listing is answered "expired"
\* whenever the current time is greater than or equal to the expiryTime of the
\* listing, whatever its claims.
C4_ExpiredFromExpiryTime ==
    [][\A u \in Receivers : \A l \in store :
          ((Answered("claim", u, l._id) \/ Suspended("claim", u, l._id))
             /\ now >= l.expiryTime)
          => res'.message = "This listing has expired."]_vars

\* The claim entry of receiver u.
Entry(u) == [userId |-> u, name |-> name(u)]

\* The request of kind k by u on listing i ran its checks in this step.
Checked(k, u, i) == Answered(k, u, i) \/ Suspended(k, u, i)

\* The steps of C5's scenario on a listing with maxClaims = 1 that is not expired, the
\* requests issued one after another: A's claim on the unclaimed listing is
\* allowed and its write leaves claims = [A]; A's second claim is rejected
\* with message m; the claim of another receiver B is rejected with "full";
\* the rejected claims leave claims = [A].
C5_Scenario(m) ==
    \A a, b \in Receivers : \A l \in store :
          (l.maxClaims = 1 /\ now < l.expiryTime) =>
             /\ (l.claims = <<>> /\ Checked("claim", a, l._id))
                   => Suspended("claim", a, l._id) /\ res' = NoRes
             /\ \A r \in BagToSet(req) :
                   (l.claims = <<>> /\ r.kind = "claim" /\ r.user = a /\ r.id = l._id
                      /\ Wrote(r))
                   => /\ res'.status = 200
                      /\ store' = (store \ {l}) \cup {[l EXCEPT !.claims = <<Entry(a)>>]}
             /\ (l.claims = <<Entry(a)>> /\ Checked("claim", a, l._id))
                   => /\ Answered("claim", a, l._id)
                      /\ res'.status = 400 /\ res'.message = m
                      /\ store' = store
             /\ (a # b /\ l.claims = <<Entry(a)>> /\ Checked("claim", b, l._id))
                   => /\ Answered("claim", b, l._id)
                      /\ res'.status = 400
                      /\ res'.message = "This listing is fully claimed."
                      /\ store' = store

\* C5: on a listing with maxClaims = 1 that is not expired, with the requests
\* issued one after another, A's claim is allowed and leaves claims = [A], a
\* second claim by A is rejected with reason "duplicate", a claim by another
\* receiver B is rejected with reason "full", and claims is still [A].
C5_SecondClaimDuplicate ==
    [][C5_Scenario("You have already claimed this listing.")]_vars

\* C5 as amended: the same scenario, but the second claim by A is rejected
\* with reason "full", the capacity check coming before the duplicate check.
C5_SecondClaimFull ==
    [][C5_Scenario("This listing is fully claimed.")]_vars

\* C5 witness: A's second claim on the listing with maxClaims = 1 and
\* claims = [A] has been answered "full".
C5_Witness ==
    /\ res.kind = "claim" /\ res.message = "This listing is fully claimed."
    /\ \E l \in store : /\ l._id = res.id
                        /\ l.maxClaims = 1 /\ now < l.expiryTime
                        /\ l.claims = <<Entry(res.user)>>

\* C6: a claim request by a Receiver that passes the three checks goes on to
\* its write; the write appends exactly one entry with the requester's
\* identity and name at the end of the stored claims of that listing and
\* changes nothing else, and the response carries the listing the handler
\* holds, whose last claim is that entry and which is the stored listing when
\* no other request wrote to it in between.  (If the listing was deleted in
\* between, the write fails, nothing is stored and the response is a server
\* error.)
C6_AllowedClaimAppends ==
    [][/\ \A u \in Receivers : \A l \in store :
             (Checked("claim", u, l._id) /\ ~(l.expiryTime < now)
                /\ Len(l.claims) < l.maxClaims /\ u \notin Claimants(l))
             => Suspended("claim", u, l._id) /\ res' = NoRes /\ store' = store
       /\ \A r \in BagToSet(req) :
             (r.kind = "claim" /\ Wrote(r)) =>
                IF FindById(r.id) = {}
                THEN store' = store /\ res'.status = 500
                ELSE \E l \in FindById(r.id) :
                        /\ store' = (store \ {l})
                                      \cup {[l EXCEPT !.claims = Append(@, Entry(r.user))]}
                        /\ res'.status = 200
                        /\ Len(res'.body) = 1
                        /\ res'.body[1]._id = r.id
                        /\ res'.body[1].claims # <<>>
                        /\ res'.body[1].claims[Len(res'.body[1].claims)] = Entry(r.user)
                        /\ ([res'.body[1] EXCEPT !.claims = SubSeq(@, 1, Len(@) - 1)] = l
                               => res'.body[1] \in store')]_vars

\* C6 witness: a claim was appended after an earlier one and the listing
\* returned is the stored one.
C6_Witness ==
    /\ res.kind = "claim" /\ res.status = 200
    /\ \E l \in store : /\ l._id = res.id
                        /\ Len(l.claims) = 2
                        /\ l.claims[2] = Entry(res.user)
                        /\ l.claims[1] # Entry(res.user)
                        /\ res.body = <<l>>

\* C7: a claim request by an identity whose role is not Receiver is answered
\* with the authorization error whether or not the listing exists, is expired
\* or is full; it changes no listing and never reaches the write.
C7_OnlyReceiversClaim ==
    [][/\ (res = NoRes /\ res'.kind = "claim" /\ role(res'.user) # "Receiver")
             => /\ res'.status = 403
                /\ res'.message = "Only receivers can claim food."
                /\ store' = store
                /\ req' = req
       /\ \A r \in BagToSet(req') : r.kind = "claim" => role(r.user) = "Receiver"]_vars

\* C7 witness: a donor's or admin's claim on a listing that is not in the
\* store was answered with the authorization error, not with not-found.
C7_Witness ==
    /\ res.kind = "claim" /\ res.status = 403
    /\ role(res.user) # "Receiver"
    /\ FindById(res.id) = {}

\* C8: the available-listings query returns exactly the stored listings with
\* expiryTime later than the current time and fewer claims than maxClaims,
\* each once, in ascending order of expiryTime.
C8_AvailableQuery ==
    res.kind = "available" =>
        LET q == res.body
            S == {l \in store : l.expiryTime > now /\ Len(l.claims) < l.maxClaims} IN
        /\ res.status = 200
        /\ {q[k]._id : k \in DOMAIN q} = {l._id : l \in S}
        /\ Len(q) = Cardinality(S)
        /\ \A a, b \in DOMAIN q : a < b => q[a].expiryTime <= q[b].expiryTime

\* C8 witness: the query returned a listing and left out a listing whose
\* expiryTime is in the future and whose claims number maxClaims.
C8_Witness ==
    /\ res.kind = "available" /\ Len(res.body) >= 1
    /\ \E l \in store : /\ l.expiryTime > now
                        /\ Len(l.claims) = l.maxClaims
                        /\ \A k \in DOMAIN res.body : res.body[k]._id # l._id

\* C9: a delete request on a stored listing goes on to remove it exactly when
\* the requester is the owning donor or an Admin, and the removal takes the
\* listing, and nothing else, out of the store; any other requester is
\* answered with the authorization error and the store is unchanged.
C9_DeleteOwnerOrAdmin ==
    [][/\ \A u \in Users : \A l \in store :
             Checked("delete", u, l._id) =>
                IF l.donor = u \/ role(u) = "Admin"
                THEN Suspended("delete", u, l._id) /\ res' = NoRes
                ELSE /\ Answered("delete", u, l._id)
                     /\ res'.status = 401
                     /\ store' = store
       /\ \A r \in BagToSet(req) :
             (r.kind = "delete" /\ Wrote(r)) =>
                /\ r.doc.donor = r.user \/ role(r.user) = "Admin"
                /\ res'.status = 200
                /\ \A l \in store' : l._id # r.id
                /\ store' = {l \in store : l._id # r.id}]_vars

\* C9 witness: the admin removed a listing of a donor.
C9_Witness ==
    /\ res.kind = "delete" /\ res.status = 200
    /\ res.user = "admin"
    /\ FindById(res.id) = {}

\* C10: an edit request on a stored listing reaches its write, and so can
\* succeed, only for the owning donor; any other requester, an Admin
\* included, is answered with the authorization error and no listing changes;
\* an edit request on an id that is not in the store is answered not-found.
C10_EditOwnerOnly ==
    [][/\ \A u \in Users : \A l \in store :
             Checked("edit", u, l._id) =>
                IF l.donor = u
                THEN Suspended("edit", u, l._id) /\ res' = NoRes
                ELSE /\ Answered("edit", u, l._id)
                     /\ res'.status = 401
                     /\ store' = store
       /\ (res = NoRes /\ res'.kind = "edit" /\ req' = req /\ FindById(res'.id) = {})
             => res'.status = 404 /\ store' = store
       /\ \A r \in BagToSet(req) :
             (r.kind = "edit" /\ Wrote(r) /\ res'.status = 200) => r.doc.donor = r.user]_vars

\* C10 witness: the admin's edit of a stored listing was answered with the
\* authorization error.
C10_Witness ==
    /\ res.kind = "edit" /\ res.status = 401
    /\ res.user = "admin"
    /\ FindById(res.id) # {}

\* The _ids of the documents of a payload.
IdsOf(q) == {q[k]._id : k \in DOMAIN q}

\* C11: a create request is answered 201 only for a requester with role
\* Donor, and then exactly one listing is added to the store, with the _id of
\* the response, owned by the requester and with no claims; a create request
\* by a Receiver or an Admin is answered 403 and every other answer than 201
\* leaves the store as it was.
C11_CreateByDonor ==
    [][(res = NoRes /\ res'.kind = "create") =>
          /\ res'.status = 201 =>
                /\ role(res'.user) = "Donor"
                /\ \E l \in store' :
                      /\ l \notin store /\ store' = store \cup {l}
                      /\ l._id = res'.id
                      /\ l.donor = res'.user
                      /\ l.claims = <<>>
          /\ role(res'.user) # "Donor" => res'.status = 403
          /\ res'.status # 201 => store' = store]_vars

\* C11 witness: a donor's listing has just been created.
C11_Witness ==
    /\ res.kind = "create" /\ res.status = 201
    /\ \E l \in store : l._id = res.id /\ l.donor = res.user /\ l.claims = <<>>
    /\ role(res.user) = "Donor"

\* C12: the claimed-listings query answers a Receiver with exactly the stored
\* listings that have the requester among their claimants, expired or not,
\* each once, in descending order of createdAt; it answers a requester of any
\* other role 403 with no listing.
C12_MyClaimsQuery ==
    res.kind = "myclaims" =>
        IF role(res.user) = "Receiver"
        THEN LET q == res.body
                 S == {l \in store : res.user \in Claimants(l)} IN
             /\ res.status = 200
             /\ IdsOf(q) = {l._id : l \in S}
             /\ Len(q) = Cardinality(S)
             /\ \A a, b \in DOMAIN q : a < b => q[a].createdAt >= q[b].createdAt
        ELSE res.status = 403 /\ res.body = <<>>

\* C12 witness: the query returned two listings created at different times,
\* the older one expired.
C12_Witness ==
    /\ res.kind = "myclaims" /\ Len(res.body) = 2
    /\ res.body[1].createdAt > res.body[2].createdAt
    /\ res.body[2].expiryTime < now

\* C13: the own-listings query answers a Donor with exactly the stored
\* listings whose donor is the requester, each once and none of another
\* donor, in descending order of createdAt; it answers a requester of any
\* other role 403 with no listing.
C13_MyListingsQuery ==
    res.kind = "mylistings" =>
        IF role(res.user) = "Donor"
        THEN LET q == res.body
                 S == {l \in store : l.donor = res.user} IN
             /\ res.status = 200
             /\ IdsOf(q) = {l._id : l \in S}
             /\ \A k \in DOMAIN q : q[k].donor = res.user
             /\ Len(q) = Cardinality(S)
             /\ \A a, b \in DOMAIN q : a < b => q[a].createdAt >= q[b].createdAt
        ELSE res.status = 403 /\ res.body = <<>>

\* C13 witness: the query returned the requester's listing and left out the
\* listing of another donor.
C13_Witness ==
    /\ res.kind = "mylistings" /\ Len(res.body) = 1
    /\ \E l \in store : l.donor # res.user

\* C14: the responses of protect to any two requests it rejects (no bearer
\* credential, a credential that fails verification, a verified credential
\* whose account is not in the User collection) are the same.
C14_UniformRejection ==
    \A c1, c2 \in Credentials :
        (Protect(c1) # "next" /\ Protect(c2) # "next")
        => Respond("create", "none", 0, 401, Protect(c1), <<>>)
              = Respond("create", "none", 0, 401, Protect(c2), <<>>)

\* The kinds of the requests to adminRouter.
AdminKinds == {"adminusers", "adminlistings", "dashboard"}

\* C15: a request to list-users, list-listings or dashboard-counts is carried
\* out (answered 200, or taken to its reads of the collections) only for an
\* authenticated account with role Admin; the request of an authenticated
\* Donor or Receiver is answered 403 with no payload, and one that protect
\* rejects is answered 401 with no payload.
C15_AdminOnly ==
    [][/\ (res'.kind \in AdminKinds /\ res' # res) =>
             /\ res'.status = 200
                   => \E x \in users : x._id = res'.user /\ x.role = "Admin"
             /\ \A x \in users :
                   (x._id = res'.user /\ x.role # "Admin")
                   => /\ res'.status = 403
                      /\ res'.message = "Not authorized as an admin"
                      /\ res'.body = <<>>
             /\ res'.user = "none" => res'.status = 401 /\ res'.body = <<>>
       /\ \A r \in BagToSet(req') :
             r.kind \in {"dashboard", "dashboardfind"}
             => \E x \in users : x._id = r.user /\ x.role = "Admin"]_vars

\* C15 witness: a registered donor asked for the listings while one was
\* stored and was answered 403.
C15_Witness ==
    /\ res.kind = "adminlistings" /\ res.status = 403
    /\ \E x \in users : x._id = res.user /\ x.role = "Donor"
    /\ store # {}

\* C16: a create request that carries an image and is answered 201 has
\* stored a listing whose imageUrl is the path of the uploaded file, which is
\* in the uploads directory; one that is answered otherwise (403 because the
\* requester is not a Donor, 400 because a required field is missing, 500
\* because save() threw) has stored no listing and its file is not in the
\* uploads directory.
C16_CreateImage ==
    [][(res = NoRes /\ res'.kind = "create" /\ res'.file # {}) =>
          \A f \in res'.file :
             IF res'.status = 201
             THEN /\ f \in files'
                  /\ \E l \in store' : /\ l \notin store
                                        /\ l._id = res'.id
                                        /\ l.imageUrl = UploadUrl(f)
             ELSE /\ res'.status \in {400, 403, 500}
                  /\ store' = store
                  /\ f \notin files']_vars

\* C16 witness: a donor's create request with an image failed in save() and
\* its file is gone.
C16_Witness ==
    /\ res.kind = "create" /\ res.status = 500 /\ res.file # {}
    /\ role(res.user) = "Donor"
    /\ \A f \in res.file : f \notin files

\* The handler that the step has suspended for the request of kind k by u on
\* listing i.
NewHandlers(k, u, i) ==
    {r \in BagToSet(req') : /\ r.kind = k /\ r.user = u /\ r.id = i
                            /\ CopiesIn(r, req') = CopiesIn(r, req) + 1}

\* C17: an edit that carries a new image deletes, when it has passed the
\* owner check, the file the listing referenced unless that reference was
\* the placeholder, and when its save succeeds the listing it returns
\* references the new file, and so does the stored listing (unless the new
\* file has the name of the old one and another edit replaced the image
\* between this edit's read and its write); an edit that carries no image
\* deletes no file and its save leaves the stored imageUrl as it was.
C17_EditImage ==
    [][/\ \A u \in Users : \A l \in store : \A r \in NewHandlers("edit", u, l._id) :
             IF r.file # {}
             THEN /\ \A f \in r.file : r.doc.imageUrl = UploadUrl(f)
                  /\ StartsWithUploads(l.imageUrl) => l.imageUrl[2] \notin files'
                  /\ l.imageUrl = Placeholder => files' = files \cup r.file
             ELSE r.doc.imageUrl = l.imageUrl /\ files' = files
       /\ \A r \in BagToSet(req) :
             (r.kind = "edit" /\ Wrote(r) /\ res'.status = 200) =>
                /\ files' = files
                /\ \A l \in FindById(r.id) : \E m \in store' :
                      /\ m._id = r.id
                      /\ IF r.file # {}
                         THEN \A f \in r.file :
                                 /\ res'.body[1].imageUrl
                                       = <<"http://localhost:3001">> \o UploadUrl(f)
                                 /\ \/ m.imageUrl = UploadUrl(f)
                                    \/ /\ "imageUrl" \notin r.mod
                                       /\ l.imageUrl # UploadUrl(f)
                         ELSE m.imageUrl = l.imageUrl]_vars

\* C17 witness: an edit with a new image has deleted the uploaded image the
\* listing references and awaits its save.
C17_Witness ==
    \E r \in BagToSet(req) : \E l \in store :
        /\ r.kind = "edit" /\ r.file # {} /\ l._id = r.id
        /\ StartsWithUploads(l.imageUrl)
        /\ l.imageUrl # r.doc.imageUrl
        /\ l.imageUrl[2] \notin files
        /\ r.file \subseteq files

\* C18: a listing created with an uploaded image references that file, and a
\* delete request that passes the check of the requester removes the file the
\* listing references from the uploads directory, and nothing else; when the
\* reference is the placeholder the uploads directory is unchanged; the
\* removal of the listing itself changes no file.
C18_DeleteImage ==
    [][/\ (res = NoRes /\ res'.kind = "create" /\ res'.status = 201) =>
             \E l \in store' :
                /\ l._id = res'.id
                /\ \A f \in res'.file : l.imageUrl = UploadUrl(f) /\ f \in files'
                /\ res'.file = {} => l.imageUrl = Placeholder
       /\ \A u \in Users : \A l \in store :
             Suspended("delete", u, l._id) =>
                IF l.imageUrl = Placeholder
                THEN files' = files
                ELSE /\ l.imageUrl[1] = "/uploads/"
                     /\ l.imageUrl[2] \notin files'
                     /\ files' = files \ {l.imageUrl[2]}
       /\ \A r \in BagToSet(req) :
             (r.kind = "delete" /\ Wrote(r)) =>
                /\ files' = files
                /\ res'.status = 200
                /\ \A l \in store' : l._id # r.id]_vars

\* C18 witness: a delete request has removed the file of the image the
\* listing was created with and awaits the removal of the listing.
C18_Witness ==
    \E r \in BagToSet(req) :
        /\ r.kind = "delete" /\ r.doc \in store
        /\ r.doc.imageUrl = UploadUrl(FileName(r.doc.donor, r.doc.createdAt))
        /\ FileName(r.doc.donor, r.doc.createdAt) \notin files

\* C19: a listing whose expiryTime has passed stays in the store as the
\* clock moves on, is returned by the own-listings query to its donor and by
\* the claimed-listings query to its claimants, passes the checks of an edit
\* and of a delete request of its owner, whose writes are carried out as for
\* any listing; it is left out of the available-listings query and a claim
\* request of a Receiver on it is answered "expired".
C19_ExpiryDoesNotLock ==
    [][/\ now' # now => store' = store
       /\ \A l \in store' : l.expiryTime < now' =>
             /\ (res'.kind = "mylistings" /\ res'.user = l.donor)
                   => l._id \in IdsOf(res'.body)
             /\ (res'.kind = "myclaims" /\ res'.user \in Claimants(l))
                   => l._id \in IdsOf(res'.body)
             /\ res'.kind = "available" => l._id \notin IdsOf(res'.body)
       /\ \A l \in store : l.expiryTime < now =>
             /\ Checked("edit", l.donor, l._id)
                   => Suspended("edit", l.donor, l._id) /\ res' = NoRes
             /\ Checked("delete", l.donor, l._id)
                   => Suspended("delete", l.donor, l._id) /\ res' = NoRes
             /\ \A r \in BagToSet(req) :
                   (r.kind = "edit" /\ r.id = l._id /\ Wrote(r) /\ r.doc.maxClaims >= 1)
                   => /\ res'.status = 200
                      /\ \E m \in store' :
                            /\ store' \ {m} = store \ {l}
                            /\ \A f \in DOMAIN m :
                                  m[f] = IF f \in r.mod THEN r.doc[f] ELSE l[f]
             /\ \A r \in BagToSet(req) :
                   (r.kind = "delete" /\ r.id = l._id /\ Wrote(r))
                   => res'.status = 200 /\ store' = store \ {l}
             /\ \A u \in Receivers :
                   Checked("claim", u, l._id)
                   => /\ Answered("claim", u, l._id)
                      /\ res'.status = 400
                      /\ res'.message = "This listing has expired."
                      /\ store' = store]_vars

\* C19 witness: the own-listings query has returned a claimed listing whose
\* expiryTime has passed.
C19_Witness ==
    /\ res.kind = "mylistings" /\ res.status = 200
    /\ \E k \in DOMAIN res.body : /\ res.body[k].expiryTime < now
                                  /\ res.body[k].claims # <<>>

\* C20: there is at most one account with role Admin; the insert of the seed
\* adds the Admin account only when no account has the admin address;
\* registration never adds an account with role Admin or with the admin
\* address; and no step changes or removes an existing account.
C20_SingleAdmin ==
    [][/\ Cardinality({x \in users' : x.role = "Admin"}) <= 1
       /\ \A x \in users : x \in users'
       /\ \A r \in BagToSet(req) : \A x \in users' \ users :
             /\ (r.kind = "seed" /\ Wrote(r))
                   => \A y \in users : y.email # adminEmail
             /\ (r.kind = "register" /\ Wrote(r))
                   => x.role # "Admin" /\ x.email # adminEmail]_vars

\* The kinds of the responses that carry listings.
ListingKinds ==
    {"create", "edit", "claim", "available", "mylistings", "myclaims", "adminlistings"}

\* The documents a step can answer with: those of the collection after the
\* step, and the one held by the handler that made its write in the step.
Sources == store' \cup {r.doc : r \in {x \in BagToSet(req) : Wrote(x)}}

\* C21: every listing of a successful response of create, edit, claim and of
\* the available, own, claimed and admin listing queries equals a document
\* the step holds except for imageUrl, which is the stored reference with
\* the server's address in front when the reference is a path in /uploads/
\* and the stored reference itself otherwise; no stored reference ever has
\* the server's address in front, and a step changes the stored reference of
\* a listing only as the write of an edit that assigned imageUrl.
C21_ImageRewritten ==
    [][/\ \A l \in store' : l.imageUrl = Placeholder \/ l.imageUrl[1] = "/uploads/"
       /\ (res = NoRes /\ res'.kind \in ListingKinds /\ res'.status \in {200, 201}) =>
             \A k \in DOMAIN res'.body : \E src \in Sources :
                res'.body[k] =
                   [src EXCEPT !.imageUrl =
                       IF src.imageUrl[1] = "/uploads/"
                       THEN <<"http://localhost:3001", "/uploads/", src.imageUrl[2]>>
                       ELSE src.imageUrl]
       /\ \A l \in store : \A m \in store' :
             (m._id = l._id /\ m.imageUrl # l.imageUrl) =>
                \E r \in BagToSet(req) :
                   /\ r.kind = "edit" /\ r.id = l._id /\ Wrote(r)
                   /\ "imageUrl" \in r.mod
                   /\ m.imageUrl = r.doc.imageUrl]_vars

\* C21 witness: the admin listing query has returned a listing whose stored
\* reference is a path in /uploads/, with the server's address in front.
C21_Witness ==
    /\ res.kind = "adminlistings" /\ res.status = 200
    /\ \E k \in DOMAIN res.body : \E l \in store :
          /\ l._id = res.body[k]._id
          /\ l.imageUrl[1] = "/uploads/"
          /\ res.body[k].imageUrl = <<"http://localhost:3001">> \o l.imageUrl

\* C22: while the claim of a receiver a on a listing that is not expired and
\* has exactly one free slot awaits its write, the claim of another receiver
\* b on that listing passes the checks as well and goes on to its write; and
\* the write of a claim that finds the stored listing already full still
\* succeeds and appends its entry, so that the stored listing has more claims
\* than maxClaims.
C22_RaceOverfills ==
    [][/\ \A a, b \in Receivers : \A l \in store :
             (/\ a # b
              /\ ~(l.expiryTime < now)
              /\ Len(l.claims) = l.maxClaims - 1
              /\ b \notin Claimants(l)
              /\ \E r \in BagToSet(req) : r.kind = "claim" /\ r.user = a /\ r.id = l._id
              /\ Checked("claim", b, l._id))
             => Suspended("claim", b, l._id) /\ res' = NoRes
       /\ \A r \in BagToSet(req) : \A l \in store :
             (/\ r.kind = "claim" /\ r.id = l._id /\ Wrote(r)
              /\ Len(l.claims) = l.maxClaims)
             => /\ res'.status = 200
                /\ \E m \in store' :
                      /\ m._id = l._id
                      /\ m.maxClaims = l.maxClaims
                      /\ m.claims = Append(l.claims, Entry(r.user))
                      /\ Len(m.claims) > m.maxClaims]_vars

\* C22 witness: a claim that read the listing with exactly one free slot has
\* written and was answered 200, and the stored listing holds the claims of
\* different receivers, more of them than maxClaims.
C22_Witness ==
    /\ res.kind = "claim" /\ res.status = 200
    /\ \E l \in store :
          /\ l._id = res.id
          /\ res.body[1].maxClaims = l.maxClaims
          /\ Len(res.body[1].claims) = l.maxClaims
          /\ Len(l.claims) > l.maxClaims
          /\ Cardinality(Claimants(l)) = Len(l.claims)

\* C23: a step taken while fs.unlink fails removes no file, and the requests
\* are answered as the checks of their handlers decide: a create request of
\* an account that is not a Donor is answered 403 and one that is not
\* answered 201 stores nothing, its file staying in the uploads directory;
\* an edit request of the owner goes on to its write and one of another
\* account is answered 401, its file staying; a delete request of the owner
\* or of an Admin goes on to its write with every file in place.  The write
\* of a delete request removes the listing and is answered 200 with the
\* removal confirmation, whether or not the unlink of its image failed.
C23_UnlinkFailureSwallowed ==
    [][/\ unlinkErr =>
             /\ files \subseteq files'
             /\ (res = NoRes /\ res'.kind = "create") =>
                   /\ res'.file \subseteq files'
                   /\ res'.status \in {201, 400, 403, 500}
                   /\ res'.status = 403 <=> role(res'.user) # "Donor"
                   /\ res'.status # 201 => store' = store
             /\ \A u \in Users : \A l \in store :
                   /\ (Checked("edit", u, l._id) /\ l.donor = u)
                         => Suspended("edit", u, l._id) /\ res' = NoRes
                   /\ (Checked("edit", u, l._id) /\ l.donor # u)
                         => /\ Answered("edit", u, l._id)
                            /\ res'.status = 401
                            /\ res'.file \subseteq files'
                   /\ (Checked("delete", u, l._id) /\ (l.donor = u \/ role(u) = "Admin"))
                         => /\ Suspended("delete", u, l._id)
                            /\ res' = NoRes
                            /\ files' = files
             /\ \A r \in BagToSet(req) :
                   (r.kind = "edit" /\ Wrote(r)) =>
                      /\ res'.status = IF r.doc.maxClaims >= 1 /\ FindById(r.id) # {}
                                       THEN 200 ELSE 500
                      /\ r.file \cap files \subseteq files'
       /\ \A r \in BagToSet(req) :
             (r.kind = "delete" /\ Wrote(r)) =>
                /\ res'.status = 200
                /\ res'.message = "Listing removed successfully"
                /\ \A l \in store' : l._id # r.id
                /\ files' = files]_vars

\* C23 witness: a delete request has passed its checks while unlink failed:
\* it awaits the removal of the listing and the file of the listing's image
\* is still in the uploads directory.
C23_Witness ==
    \E r \in BagToSet(req) :
        /\ r.kind = "delete" /\ r.doc \in store
        /\ r.doc.imageUrl[1] = "/uploads/"
        /\ r.doc.imageUrl[2] \in files

\* C24: the write of a claim that is answered 200 leaves the requester among
\* the claims of the stored listing, and no step removes, replaces or
\* reorders a claim of a listing that stays in the store: the claims before
\* the step are the first claims after it, in the same order.  This holds
\* for the writes of concurrent claims and for the write of an edit that
\* read the listing before a claim was written.
C24_ClaimsPersist ==
    [][/\ \A r \in BagToSet(req) :
             (r.kind = "claim" /\ Wrote(r) /\ res'.status = 200) =>
                \E m \in store' : m._id = r.id /\ r.user \in Claimants(m)
       /\ \A l \in store : \A m \in store' :
             m._id = l._id =>
                /\ Len(m.claims) >= Len(l.claims)
                /\ SubSeq(m.claims, 1, Len(l.claims)) = l.claims]_vars

\* C24 witness: an edit that read the listing when it had no claims has
\* saved after a claim was written, and the stored listing has the claim.
C24_Witness ==
    /\ res.kind = "edit" /\ res.status = 200
    /\ res.body[1].claims = <<>>
    /\ \E l \in store : l._id = res.id /\ l.claims # <<>>

\* C25: the write of an edit whose maxClaims is at least 1 and not smaller
\* than the number of claims of the stored listing, when it is answered 200,
\* leaves a stored listing whose maxClaims is at least 1 and not smaller than
\* the number of its claims; the write of an edit whose maxClaims is below 1
\* or below the number of claims leaves the store as it was.
C25_EditKeepsCapacity ==
    [][\A r \in BagToSet(req) :
          (r.kind = "edit" /\ Wrote(r)) =>
             \A l \in FindById(r.id) :
                IF r.doc.maxClaims >= 1 /\ r.doc.maxClaims >= Len(l.claims)
                THEN res'.status = 200 =>
                        \E m \in store' : /\ m._id = l._id
                                          /\ m.maxClaims >= 1
                                          /\ m.maxClaims >= Len(m.claims)
                ELSE store' = store]_vars

\* C26: in every reachable state, for every stored listing and every
\* receiver who is not among its claimants, the listing satisfies the filter
\* of the available-listings query at the current time exactly when the
\* checks of a claim request of that receiver at the current time allow the
\* claim.
C26_QueryAgreesWithClaim ==
    \A l \in store : \A u \in Receivers :
        u \notin Claimants(l) =>
           (Available(l, now) <=> ClaimDecision(l, u, now) = "allow")

C28_StoredImageExists ==
    [][(res = NoRes /\ res'.kind \in {"edit", "delete"}) =>
          \A l \in store' :
             (l.imageUrl[1] = "/uploads/" /\ l.imageUrl[2] \notin res'.file)
                => l.imageUrl[2] \in files']_vars

\* C29: after every step that answers an edit request which carried an
\* uploaded image otherwise than with 200 (404 because the listing is not
\* found, 401 because the requester is not the owner, 500 because save()
\* threw), the uploaded file is not in the uploads directory.
C29_FailedEditRemovesUpload ==
    [][(res = NoRes /\ res'.kind = "edit" /\ res'.status # 200 /\ res'.file # {}) =>
          \A f \in res'.file : f \notin files']_vars

\* The write of a delete request removes the listing and confirms it with
\* 200.  What a step does with an _id that was given out and is not in the
\* store (its listing was removed; _ids are never given out twice, and a
\* listing whose insert failed is in the same position): no listing with
\* such an _id is in the store after the step; the write of a
\* claim or an edit that read the listing before its removal stores nothing
\* and is answered 500; a claim request on it by an account in N is answered
\* 404 and by another account 403, and an edit or delete request on it is
\* answered 404.
C30_Step(N) ==
    /\ \A l \in store' : l._id < nextId'
    /\ \A r \in BagToSet(req) :
          (r.kind = "delete" /\ Wrote(r)) =>
             res'.status = 200 /\ \A m \in store' : m._id # r.id
    /\ \A i \in 1..(nextId - 1) :
          FindById(i) = {} =>
             /\ \A m \in store' : m._id # i
             /\ \A r \in BagToSet(req) :
                   (r.kind \in {"claim", "edit"} /\ r.id = i /\ Wrote(r)) =>
                      store' = store /\ res'.status = 500
             /\ \A u \in Users :
                   /\ Checked("claim", u, i) =>
                         /\ Answered("claim", u, i)
                         /\ res'.status = IF u \in N THEN 404 ELSE 403
                   /\ Checked("edit", u, i) =>
                         Answered("edit", u, i) /\ res'.status = 404
                   /\ Checked("delete", u, i) =>
                         Answered("delete", u, i) /\ res'.status = 404

\* C30: once the write of a delete request has removed a listing and
\* confirmed it, no step puts a listing with its _id into the store; the
\* write of a claim or an edit that read the listing before the removal
\* stores nothing and is answered 500; and every claim, edit or delete
\* request on it that starts afterwards is answered 404.
C30_DeleteIsFinal == [][C30_Step(Users)]_vars

\* C30 as amended: as C30, but a claim request on the removed listing is
\* answered 404 only when the requester is a Receiver; the claim request of
\* a Donor or an Admin is answered 403 before the listing is looked up.
C30_DeleteIsFinalForReceivers == [][C30_Step(Receivers)]_vars

\* C30 witness: the write of a claim that read the listing before it was
\* removed was answered 500 and the listing is not in the store.
C30_Witness ==
    /\ res.kind = "claim" /\ res.status = 500
    /\ res.id < nextId
    /\ FindById(res.id) = {}
====
